---- MODULE Spec2Model ----
(***************************************************************************)
(* Model of src/pypsa_academy.py: the solver prober (solver_selected),     *)
(* the sheet-to-CSV converter (convert_excel_to_csv) and the interactive   *)
(* viewer (pypsa_viewer).  The three utilities are independent, so each    *)
(* has its own specification; the variables of the other two stay at       *)
(* their initial values.                                                   *)
(***************************************************************************)
EXTENDS Integers, Sequences, FiniteSets, TLC

VARIABLES
    \* ---- solver_selected ----
    avail,        \* environment: the solvers whose optimize() completes
    sv_pc,        \* position inside solver_selected
    sv_i,         \* index of the for loop of find_solver (1-based)
    attempts,     \* the solver names handed to simple_network, in order
    solver,       \* the local variable `solver` of solver_selected
    sv_printed,   \* the candidates named by the message printed by `print(e)`
    sv_ret,       \* the value returned to the caller
    sv_err,       \* the exception that reaches the caller
    \* ---- convert_excel_to_csv ----
    dir,          \* the files of csv_folder_path (file names)
    dir0,         \* the files the directory held when the current call began
    removed,      \* the files os.remove deleted during the current call
    written,      \* the files to_csv wrote during the current call
    workbook,     \* the workbook at excel_file_path: readable?, sheet_names
    components,   \* the allow-list computed by the current call
    xls,          \* the local `xls`: unbound, open or closed
    futures,      \* the sheet names submitted to the pool, in order
    task,         \* state of the conversion task of each submitted sheet
    cv_i,         \* position of `for future in futures`
    created_csv_files,
    cv_pc,        \* position of the driving thread
    cv_failed,    \* an exception is being handled by `except Exception`
    pendingAtRaise, \* a task was unfinished when future.result() raised
    cv_ret,       \* the value returned to the caller
    cv_err,       \* the exception that reaches the caller
    calls,        \* number of calls made so far
    \* ---- pypsa_viewer ----
    seriesEmpty,  \* network: the <<component, attribute>> series that are empty
    vw_first,     \* the first-level widgets are on the display surface
    vw_panels,    \* the second-level selectors on the display surface
    return_file,  \* state['return_file']
    vw_out,       \* what the last handler put on the display surface
    vw_err,       \* the exception the last handler raised
    vw_last,      \* the handler that ran last, with its selections
    vw_confirms,  \* first-level confirmations that ran to completion
    vw_rendered,  \* a handler has rendered in this invocation
    vw_inv        \* invocations of pypsa_viewer so far

solverVars == <<avail, sv_pc, sv_i, attempts, solver, sv_printed, sv_ret, sv_err>>

convVars == <<dir, dir0, removed, written, workbook, components, xls, futures,
              task, cv_i, created_csv_files, cv_pc, cv_failed, pendingAtRaise,
              cv_ret, cv_err, calls>>

viewVars == <<seriesEmpty, vw_first, vw_panels, return_file, vw_out, vw_err,
              vw_last, vw_confirms, vw_rendered, vw_inv>>

vars == <<solverVars, convVars, viewVars>>

(***************************************************************************)
(* Python values                                                           *)
(***************************************************************************)
None == "None"
Unbound == "<unbound>"
NoError == [kind |-> "none", names |-> <<>>]

(***************************************************************************)
(* solver_selected                                                         *)
(***************************************************************************)
solver_options == <<"gurobi", "cplex", "mosek", "highs", "glpk">>

Range(s) == {s[k] : k \in 1..Len(s)}

\* simple_network: any exception of the build or the solve is caught and
\* turned into None; otherwise the result of optimize() is returned.
simple_network(solver_name) ==
    IF solver_name \in avail THEN "solved" ELSE None

SolverInit ==
    /\ avail \in SUBSET Range(solver_options)
    /\ sv_pc = "loop"
    /\ sv_i = 1
    /\ attempts = <<>>
    /\ solver = Unbound
    /\ sv_printed = <<>>
    /\ sv_ret = None
    /\ sv_err = NoError

\* One iteration of the for loop of find_solver, without the early return:
\* the loop goes on after a success.
find_solver_try_nostop ==
    /\ sv_pc = "loop"
    /\ sv_i <= Len(solver_options)
    /\ attempts' = Append(attempts, solver_options[sv_i])
    /\ IF simple_network(solver_options[sv_i]) # None
          THEN /\ solver' = solver_options[sv_i]
               /\ sv_pc' = IF sv_i = Len(solver_options) THEN "return" ELSE "loop"
               /\ sv_i' = sv_i + 1
          ELSE /\ sv_i' = sv_i + 1
               /\ sv_pc' = IF sv_i = Len(solver_options) /\ solver # Unbound
                              THEN "return" ELSE "loop"
               /\ UNCHANGED solver
    /\ UNCHANGED <<avail, sv_printed, sv_ret, sv_err>>
    /\ UNCHANGED <<convVars, viewVars>>

\* One iteration of the for loop of find_solver; on success find_solver
\* returns and `solver = find_solver()` binds the local variable.
find_solver_try ==
    /\ sv_pc = "loop"
    /\ sv_i <= Len(solver_options)
    /\ attempts' = Append(attempts, solver_options[sv_i])
    /\ IF simple_network(solver_options[sv_i]) # None
          THEN /\ solver' = solver_options[sv_i]
               /\ sv_pc' = "return"
               /\ UNCHANGED sv_i
          ELSE /\ sv_i' = sv_i + 1
               /\ UNCHANGED <<solver, sv_pc>>
    /\ UNCHANGED <<avail, sv_printed, sv_ret, sv_err>>
    /\ UNCHANGED <<convVars, viewVars>>

\* The loop is exhausted: find_solver raises ValueError, the handler of
\* solver_selected catches it and prints its message.
find_solver_raise ==
    /\ sv_pc = "loop"
    /\ sv_i > Len(solver_options)
    /\ sv_printed' = solver_options
    /\ sv_pc' = "return"
    /\ UNCHANGED <<avail, sv_i, attempts, solver, sv_ret, sv_err>>
    /\ UNCHANGED <<convVars, viewVars>>

\* `return solver`: reading an unbound local raises UnboundLocalError, whose
\* message names the variable and no candidate.
solver_selected_return ==
    /\ sv_pc = "return"
    /\ IF solver = Unbound
          THEN /\ sv_err' = [kind |-> "UnboundLocalError", names |-> <<>>]
               /\ sv_pc' = "raised"
               /\ UNCHANGED sv_ret
          ELSE /\ sv_ret' = solver
               /\ sv_pc' = "returned"
               /\ UNCHANGED sv_err
    /\ UNCHANGED <<avail, sv_i, attempts, solver, sv_printed>>
    /\ UNCHANGED <<convVars, viewVars>>


(***************************************************************************)
(* Strings are sequences of tokens; ".csv" is one token and no other token *)
(* contains a part of it, so the string operations act token-wise.         *)
(***************************************************************************)
\* item.endswith(".csv")
endswith_csv(item) == Len(item) > 0 /\ item[Len(item)] = ".csv"

\* item.replace(".csv", ""): every occurrence is removed
replace_csv(item) == SelectSeq(item, LAMBDA t : t # ".csv")

\* os.path.join(csv_folder_path, f"{sheet_name}.csv"), relative to the folder
csv_file_path(sheet_name) == Append(sheet_name, ".csv")

(***************************************************************************)
(* The schema of pypsa.Network(): n.components and n.component_attrs,      *)
(* abridged to three component types.                                      *)
(***************************************************************************)
ComponentKeys == {"Carrier", "Generator", "Load"}

list_name(key) ==
    CASE key = "Carrier" -> "carriers"
      [] key = "Generator" -> "generators"
      [] key = "Load" -> "loads"

Attr(n, s, v) == [name |-> n, status |-> s, varying |-> v]

component_attrs(key) ==
    CASE key = "Carrier" ->
           { Attr("name", "Input (required)", FALSE),
             Attr("co2_emissions", "Input (optional)", FALSE) }
      [] key = "Generator" ->
           { Attr("name", "Input (required)", FALSE),
             Attr("bus", "Input (required)", FALSE),
             Attr("p_nom", "Input (optional)", FALSE),
             Attr("p_max_pu", "Input (optional)", TRUE),
             Attr("p_set", "Input (optional)", TRUE),
             Attr("p", "Output", TRUE),
             Attr("p_nom_opt", "Output", FALSE) }
      [] key = "Load" ->
           { Attr("name", "Input (required)", FALSE),
             Attr("bus", "Input (required)", FALSE),
             Attr("p_set", "Input (optional)", TRUE),
             Attr("p", "Output", TRUE) }

\* status.str.contains(io_data)
status_contains(status, io_data) ==
    IF io_data = "Input"
       THEN status \in {"Input (required)", "Input (optional)"}
       ELSE status = "Output"

\* the index of the rows with an Input status and varying == True
varying_inputs(key) ==
    { a.name : a \in { r \in component_attrs(key) :
                         status_contains(r.status, "Input") /\ r.varying } }

\* The set comprehension of convert_excel_to_csv: dict_value ranges over the
\* varying input attributes, or over [None] when there is none.
allow_list ==
    UNION { { IF dict_value # None
                 THEN <<list_name(key), "-", dict_value>>
                 ELSE <<list_name(key)>>
              : dict_value \in IF varying_inputs(key) # {}
                                  THEN varying_inputs(key) ELSE {None} }
            : key \in ComponentKeys }

(***************************************************************************)
(* convert_excel_to_csv                                                    *)
(***************************************************************************)
MaxCalls == 2
MaxSheets == 2
max_workers == 5

SheetNames == { <<"carriers">>, <<"generators">>,
                <<"generators", "-", "p_set">>, <<"notes">> }

FileNames == { <<"carriers", ".csv">>, <<"generators", ".csv">>,
               <<"generators", "-", "p_set", ".csv">>,
               <<"carriers", ".csv", ".csv">>, <<"notes", ".txt">> }

\* sequences of distinct sheet names
SheetLists ==
    { s \in UNION { [1..n -> SheetNames] : n \in 0..MaxSheets } :
        \A j, k \in 1..Len(s) : j # k => s[j] # s[k] }

Workbooks == [readable : BOOLEAN, sheet_names : SheetLists]

NoWorkbook == [readable |-> FALSE, sheet_names |-> <<>>]

ConvInit ==
    /\ dir \in SUBSET FileNames
    /\ dir0 = dir
    /\ removed = {}
    /\ written = {}
    /\ workbook = NoWorkbook
    /\ components = {}
    /\ xls = Unbound
    /\ futures = <<>>
    /\ task = <<>>
    /\ cv_i = 1
    /\ created_csv_files = <<>>
    /\ cv_pc = "idle"
    /\ cv_failed = FALSE
    /\ pendingAtRaise = FALSE
    /\ cv_ret = None
    /\ cv_err = "none"
    /\ calls = 0

\* The call begins: the allow-list is computed, created_csv_files is
\* emptied and os.makedirs(exist_ok=True) keeps an existing directory.
convert_begin ==
    /\ cv_pc \in {"idle", "returned", "raised"}
    /\ calls < MaxCalls
    /\ \E wb \in Workbooks :
          /\ (~wb.readable => wb.sheet_names = <<>>)
          /\ workbook' = wb
    /\ calls' = calls + 1
    /\ components' = allow_list
    /\ dir0' = dir
    /\ removed' = {}
    /\ written' = {}
    /\ xls' = Unbound
    /\ futures' = <<>>
    /\ task' = <<>>
    /\ cv_i' = 1
    /\ created_csv_files' = <<>>
    /\ cv_failed' = FALSE
    /\ pendingAtRaise' = FALSE
    /\ cv_ret' = None
    /\ cv_err' = "none"
    /\ cv_pc' = "clear"
    /\ UNCHANGED dir
    /\ UNCHANGED <<solverVars, viewVars>>

\* the items the clearing loop removes
to_clear ==
    { item \in dir : endswith_csv(item) /\ replace_csv(item) \in components }

\* The clearing loop that removes nothing.
convert_clear_nothing ==
    /\ cv_pc = "clear"
    /\ cv_pc' = "open"
    /\ UNCHANGED <<dir, dir0, removed, written, workbook, components, xls,
                   futures, task, cv_i, created_csv_files, cv_failed,
                   pendingAtRaise, cv_ret, cv_err, calls>>
    /\ UNCHANGED <<solverVars, viewVars>>

\* for item in os.listdir(csv_folder_path): ... os.remove(...)
convert_clear ==
    /\ cv_pc = "clear"
    /\ dir' = dir \ to_clear
    /\ removed' = to_clear
    /\ cv_pc' = "open"
    /\ UNCHANGED <<dir0, written, workbook, components, xls, futures, task,
                   cv_i, created_csv_files, cv_failed, pendingAtRaise,
                   cv_ret, cv_err, calls>>
    /\ UNCHANGED <<solverVars, viewVars>>

\* os.remove raises on one of the items (the loop is outside the try): the
\* items listed before it are gone and the exception leaves the call.
convert_clear_raises ==
    /\ cv_pc = "clear"
    /\ \E gone \in SUBSET to_clear :
          /\ gone # to_clear
          /\ dir' = dir \ gone
          /\ removed' = gone
    /\ cv_err' = "OSError"
    /\ cv_pc' = "raised"
    /\ UNCHANGED <<dir0, written, workbook, components, xls, futures, task,
                   cv_i, created_csv_files, cv_failed, pendingAtRaise,
                   cv_ret, calls>>
    /\ UNCHANGED <<solverVars, viewVars>>

Finished(k) == task[k] \in {"done", "raised"}

\* xls = pd.ExcelFile(...) and the submission of one task per allowed sheet.
\* When the workbook cannot be opened, `except` logs and returns [], then
\* `finally` reads the unbound local xls and UnboundLocalError replaces the
\* return.
convert_open ==
    /\ cv_pc = "open"
    /\ IF workbook.readable
          THEN /\ xls' = "open"
               /\ futures' = SelectSeq(workbook.sheet_names,
                                       LAMBDA sheet_name : sheet_name \in components)
               /\ task' = [k \in 1..Len(futures') |-> "queued"]
               /\ cv_pc' = "result"
               /\ UNCHANGED <<cv_failed, cv_err>>
          ELSE /\ cv_failed' = TRUE
               /\ cv_err' = "UnboundLocalError"
               /\ cv_pc' = "raised"
               /\ UNCHANGED <<xls, futures, task>>
    /\ UNCHANGED <<dir, dir0, removed, written, workbook, components, cv_i,
                   created_csv_files, pendingAtRaise, cv_ret, calls>>
    /\ UNCHANGED <<solverVars, viewVars>>

\* A pool thread takes a queued task.
task_start(k) ==
    /\ task[k] = "queued"
    /\ Cardinality({j \in 1..Len(task) : task[j] \in {"parsing", "writing"}})
          < max_workers
    /\ task' = [task EXCEPT ![k] = "parsing"]
    /\ UNCHANGED <<dir, dir0, removed, written, workbook, components, xls,
                   futures, cv_i, created_csv_files, cv_pc, cv_failed,
                   pendingAtRaise, cv_ret, cv_err, calls>>
    /\ UNCHANGED <<solverVars, viewVars>>

\* convert_sheet_to_csv: df = xls.parse(sheet_name), which may raise
task_parse(k) ==
    /\ task[k] = "parsing"
    /\ \E ok \in BOOLEAN :
          task' = [task EXCEPT ![k] = IF ok THEN "writing" ELSE "raised"]
    /\ UNCHANGED <<dir, dir0, removed, written, workbook, components, xls,
                   futures, cv_i, created_csv_files, cv_pc, cv_failed,
                   pendingAtRaise, cv_ret, cv_err, calls>>
    /\ UNCHANGED <<solverVars, viewVars>>

\* convert_sheet_to_csv: df.to_csv(csv_file_path); a failing write may
\* leave the file behind
task_write(k) ==
    /\ task[k] = "writing"
    /\ \E ok \in BOOLEAN, file_left \in BOOLEAN :
          /\ (ok => file_left)
          /\ task' = [task EXCEPT ![k] = IF ok THEN "done" ELSE "raised"]
          /\ IF file_left
                THEN /\ dir' = dir \cup {csv_file_path(futures[k])}
                     /\ written' = written \cup {csv_file_path(futures[k])}
                ELSE UNCHANGED <<dir, written>>
    /\ UNCHANGED <<dir0, removed, workbook, components, xls, futures, cv_i,
                   created_csv_files, cv_pc, cv_failed, pendingAtRaise,
                   cv_ret, cv_err, calls>>
    /\ UNCHANGED <<solverVars, viewVars>>

\* created_csv_files.append(future.result()): blocks until the task is
\* finished and re-raises the exception of a failed task
convert_result ==
    /\ cv_pc = "result"
    /\ cv_i <= Len(futures)
    /\ Finished(cv_i)
    /\ IF task[cv_i] = "done"
          THEN /\ created_csv_files' =
                     Append(created_csv_files, csv_file_path(futures[cv_i]))
               /\ cv_i' = cv_i + 1
               /\ UNCHANGED <<cv_pc, cv_failed, pendingAtRaise>>
          ELSE /\ cv_failed' = TRUE
               /\ pendingAtRaise' = (\E k \in 1..Len(task) : ~Finished(k))
               /\ cv_pc' = "exit"
               /\ UNCHANGED <<cv_i, created_csv_files>>
    /\ UNCHANGED <<dir, dir0, removed, written, workbook, components, xls,
                   futures, task, cv_ret, cv_err, calls>>
    /\ UNCHANGED <<solverVars, viewVars>>

\* the loop over the futures is over
convert_results_done ==
    /\ cv_pc = "result"
    /\ cv_i > Len(futures)
    /\ cv_pc' = "exit"
    /\ UNCHANGED <<dir, dir0, removed, written, workbook, components, xls,
                   futures, task, cv_i, created_csv_files, cv_failed,
                   pendingAtRaise, cv_ret, cv_err, calls>>
    /\ UNCHANGED <<solverVars, viewVars>>

\* Leaving the with block without waiting for the pool.
convert_exit_nowait ==
    /\ cv_pc = "exit"
    /\ cv_pc' = "finally"
    /\ UNCHANGED <<dir, dir0, removed, written, workbook, components, xls,
                   futures, task, cv_i, created_csv_files, cv_failed,
                   pendingAtRaise, cv_ret, cv_err, calls>>
    /\ UNCHANGED <<solverVars, viewVars>>

\* Leaving `with ThreadPoolExecutor() as executor`, normally or by an
\* exception: __exit__ is shutdown(wait=True), which runs the queued tasks
\* and returns when every task is finished.
convert_exit ==
    /\ cv_pc = "exit"
    /\ \A k \in 1..Len(task) : Finished(k)
    /\ cv_pc' = "finally"
    /\ UNCHANGED <<dir, dir0, removed, written, workbook, components, xls,
                   futures, task, cv_i, created_csv_files, cv_failed,
                   pendingAtRaise, cv_ret, cv_err, calls>>
    /\ UNCHANGED <<solverVars, viewVars>>

\* `finally: xls.close()`, then `return []` of the except clause or
\* `return csv_folder_path`
convert_finally ==
    /\ cv_pc = "finally"
    /\ xls' = "closed"
    /\ cv_ret' = IF cv_failed THEN "[]" ELSE "csv_folder_path"
    /\ cv_pc' = "returned"
    /\ UNCHANGED <<dir, dir0, removed, written, workbook, components, futures,
                   task, cv_i, created_csv_files, cv_failed, pendingAtRaise,
                   cv_err, calls>>
    /\ UNCHANGED <<solverVars, viewVars>>

ConvNext ==
    \/ convert_begin
    \/ convert_clear
    \/ convert_clear_raises
    \/ convert_open
    \/ \E k \in 1..Len(task) : task_start(k)
    \/ \E k \in 1..Len(task) : task_parse(k)
    \/ \E k \in 1..Len(task) : task_write(k)
    \/ convert_result
    \/ convert_results_done
    \/ convert_exit
    \/ convert_finally

(***************************************************************************)
(* pypsa_viewer                                                            *)
(***************************************************************************)
MaxConfirms == 3
MaxInvocations == 2

io_types == {"Input", "Output"}
type_options == {"static", "varying"}
view_type == {"Plot", "Table"}

\* the rows whose status contains io_data and that are varying
varying_attributes(val, io_data) ==
    { a.name : a \in { r \in component_attrs(val) :
                         status_contains(r.status, io_data) /\ r.varying } }

\* the rows whose status contains io_data, without 'name'
static_attributes(val, io_data) ==
    { a.name : a \in { r \in component_attrs(val) :
                         status_contains(r.status, io_data) } } \ {"name"}

\* network.generators.columns: the attributes of Generator kept in the
\* static table (the index `name` and the output series are not columns)
generators_columns ==
    { a.name : a \in { r \in component_attrs("Generator") :
                         r.name # "name" /\ ~(r.status = "Output" /\ r.varying) } }

valid_attributes(val, io_data) ==
    static_attributes(val, io_data) \cap generators_columns

\* getattr(network, list_name + "_t")[variable]
time_data(val, variable) ==
    [kind |-> "series", val |-> val, attrs |-> {variable},
     empty |-> (<<val, variable>> \in seriesEmpty)]

component_data(val, attrs) ==
    [kind |-> "static", val |-> val, attrs |-> attrs, empty |-> FALSE]

NoData == [kind |-> "None", val |-> "", attrs |-> {}, empty |-> TRUE]

NoHandler == [handler |-> "none", val |-> "", io_data |-> "", type_var |-> "",
              variable |-> "", mode |-> ""]

Series == { <<val, a.name>> : val \in ComponentKeys, a \in UNION { component_attrs(k) : k \in ComponentKeys } }

VaryingSeries ==
    { p \in Series : \E r \in component_attrs(p[1]) : r.name = p[2] /\ r.varying }

ViewerInit ==
    /\ seriesEmpty \in SUBSET VaryingSeries
    /\ vw_first = TRUE
    /\ vw_panels = {}
    /\ return_file = NoData
    /\ vw_out = "widgets"
    /\ vw_err = "none"
    /\ vw_last = NoHandler
    /\ vw_confirms = 0
    /\ vw_rendered = FALSE
    /\ vw_inv = 1

\* pypsa_viewer(network) is invoked again: clear_output(), new widgets and a
\* new state record
pypsa_viewer ==
    /\ vw_inv < MaxInvocations
    /\ vw_inv' = vw_inv + 1
    /\ vw_first' = TRUE
    /\ vw_panels' = {}
    /\ return_file' = NoData
    /\ vw_out' = "widgets"
    /\ vw_err' = "none"
    /\ vw_last' = NoHandler
    /\ vw_confirms' = 0
    /\ vw_rendered' = FALSE
    /\ UNCHANGED seriesEmpty
    /\ UNCHANGED <<solverVars, convVars>>

\* on_confirm_clicked whose static branch does not clear the output.
on_confirm_clicked_noclear(val, io_data, type_var) ==
    /\ vw_first
    /\ vw_confirms < MaxConfirms
    /\ vw_confirms' = IF type_var = "varying" /\ varying_attributes(val, io_data) = {}
                          THEN vw_confirms ELSE vw_confirms + 1
    /\ vw_last' = [handler |-> "first", val |-> val, io_data |-> io_data,
                   type_var |-> type_var, variable |-> "", mode |-> ""]
    /\ IF type_var = "varying"
          THEN IF varying_attributes(val, io_data) = {}
                  THEN /\ vw_err' = "IndexError"
                       /\ UNCHANGED <<vw_first, vw_panels, return_file, vw_out,
                                      vw_rendered>>
                  ELSE /\ vw_panels' = vw_panels \cup
                                          {[val |-> val, io_data |-> io_data]}
                       /\ vw_out' = "widgets"
                       /\ vw_err' = "none"
                       /\ UNCHANGED <<vw_first, return_file, vw_rendered>>
          ELSE /\ vw_rendered' = TRUE
               /\ vw_err' = "none"
               /\ UNCHANGED <<vw_first, vw_panels>>
               /\ IF valid_attributes(val, io_data) # {}
                     THEN /\ return_file' =
                               component_data(val, valid_attributes(val, io_data))
                          /\ vw_out' = "table"
                     ELSE /\ vw_out' = "warning"
                          /\ UNCHANGED return_file
    /\ UNCHANGED <<seriesEmpty, vw_inv>>
    /\ UNCHANGED <<solverVars, convVars>>

\* on_confirm_clicked: the first-level confirmation, with the values of the
\* dropdown and of the two radio buttons.  varying_attributes[0] raises
\* IndexError on an empty list, before any widget is made.
on_confirm_clicked(val, io_data, type_var) ==
    /\ vw_first
    /\ vw_confirms < MaxConfirms
    /\ vw_confirms' = IF type_var = "varying" /\ varying_attributes(val, io_data) = {}
                          THEN vw_confirms ELSE vw_confirms + 1
    /\ vw_last' = [handler |-> "first", val |-> val, io_data |-> io_data,
                   type_var |-> type_var, variable |-> "", mode |-> ""]
    /\ IF type_var = "varying"
          THEN IF varying_attributes(val, io_data) = {}
                  THEN /\ vw_err' = "IndexError"
                       /\ UNCHANGED <<vw_first, vw_panels, return_file, vw_out,
                                      vw_rendered>>
                  ELSE /\ vw_panels' = vw_panels \cup
                                          {[val |-> val, io_data |-> io_data]}
                       /\ vw_out' = "widgets"
                       /\ vw_err' = "none"
                       /\ UNCHANGED <<vw_first, return_file, vw_rendered>>
          ELSE /\ vw_first' = FALSE
               /\ vw_panels' = {}
               /\ vw_rendered' = TRUE
               /\ vw_err' = "none"
               /\ IF valid_attributes(val, io_data) # {}
                     THEN /\ return_file' =
                               component_data(val, valid_attributes(val, io_data))
                          /\ vw_out' = "table"
                     ELSE /\ vw_out' = "warning"
                          /\ UNCHANGED return_file
    /\ UNCHANGED <<seriesEmpty, vw_inv>>
    /\ UNCHANGED <<solverVars, convVars>>

\* on_new_confirm_clicked that draws the chart whatever the series holds.
on_new_confirm_clicked_always_plots(panel, variable, mode) ==
    /\ panel \in vw_panels
    /\ variable \in varying_attributes(panel.val, panel.io_data)
    /\ vw_first' = FALSE
    /\ vw_panels' = {}
    /\ vw_rendered' = TRUE
    /\ vw_err' = "none"
    /\ vw_last' = [handler |-> "second", val |-> panel.val,
                   io_data |-> panel.io_data, type_var |-> "varying",
                   variable |-> variable, mode |-> mode]
    /\ return_file' = time_data(panel.val, variable)
    /\ vw_out' = IF mode = "Table" THEN "table" ELSE "chart"
    /\ UNCHANGED <<seriesEmpty, vw_confirms, vw_inv>>
    /\ UNCHANGED <<solverVars, convVars>>

\* on_new_confirm_clicked: the second-level confirmation of one selector,
\* with the values of its dropdown and radio button; type_var is 'varying'
\* in every closure that exists.
on_new_confirm_clicked(panel, variable, mode) ==
    /\ panel \in vw_panels
    /\ variable \in varying_attributes(panel.val, panel.io_data)
    /\ vw_first' = FALSE
    /\ vw_panels' = {}
    /\ vw_rendered' = TRUE
    /\ vw_err' = "none"
    /\ vw_last' = [handler |-> "second", val |-> panel.val,
                   io_data |-> panel.io_data, type_var |-> "varying",
                   variable |-> variable, mode |-> mode]
    /\ IF mode = "Table"
          THEN /\ return_file' = time_data(panel.val, variable)
               /\ vw_out' = "table"
          ELSE IF time_data(panel.val, variable).empty
                  THEN /\ vw_out' = "No data to plot"
                       /\ return_file' = NoData
                  ELSE /\ vw_out' = "chart"
                       /\ return_file' = time_data(panel.val, variable)
    /\ UNCHANGED <<seriesEmpty, vw_confirms, vw_inv>>
    /\ UNCHANGED <<solverVars, convVars>>

Panels == [val : ComponentKeys, io_data : io_types]

Variables == { a.name : a \in UNION { component_attrs(k) : k \in ComponentKeys } }

ViewNext ==
    \/ pypsa_viewer
    \/ \E val \in ComponentKeys, io_data \in io_types, type_var \in type_options :
          on_confirm_clicked(val, io_data, type_var)
    \/ \E panel \in Panels, variable \in Variables, mode \in view_type :
          on_new_confirm_clicked(panel, variable, mode)

SolverNext ==
    \/ find_solver_try
    \/ find_solver_raise
    \/ solver_selected_return

SolverQuiet ==
    /\ avail = {}
    /\ sv_pc = "loop"
    /\ sv_i = 1
    /\ attempts = <<>>
    /\ solver = Unbound
    /\ sv_printed = <<>>
    /\ sv_ret = None
    /\ sv_err = NoError

ConvQuiet ==
    /\ dir = {}
    /\ dir0 = {}
    /\ removed = {}
    /\ written = {}
    /\ workbook = NoWorkbook
    /\ components = {}
    /\ xls = Unbound
    /\ futures = <<>>
    /\ task = <<>>
    /\ cv_i = 1
    /\ created_csv_files = <<>>
    /\ cv_pc = "idle"
    /\ cv_failed = FALSE
    /\ pendingAtRaise = FALSE
    /\ cv_ret = None
    /\ cv_err = "none"
    /\ calls = 0

ViewQuiet ==
    /\ seriesEmpty = {}
    /\ vw_first = TRUE
    /\ vw_panels = {}
    /\ return_file = NoData
    /\ vw_out = "widgets"
    /\ vw_err = "none"
    /\ vw_last = NoHandler
    /\ vw_confirms = 0
    /\ vw_rendered = FALSE
    /\ vw_inv = 1

InitSolver == SolverInit /\ ConvQuiet /\ ViewQuiet
SpecSolver == InitSolver /\ [][SolverNext]_vars

InitConv == ConvInit /\ SolverQuiet /\ ViewQuiet
SpecConv == InitConv /\ [][ConvNext]_vars

InitView == ViewerInit /\ SolverQuiet /\ ConvQuiet
SpecView == InitView /\ [][ViewNext]_vars

(***************************************************************************)
(* Properties                                                              *)
(***************************************************************************)
\* the file name without its final ".csv" extension
BaseName(item) == SubSeq(item, 1, Len(item) - 1)

\* C1: the candidates are attempted in the preference order, each at most
\* once, no candidate is attempted after one has succeeded, and the value
\* returned is the first candidate whose solve completes.
C1_FirstSuccessWins ==
    /\ attempts = SubSeq(solver_options, 1, Len(attempts))
    /\ \A k \in 1..(Len(attempts) - 1) : attempts[k] \notin avail
    /\ sv_pc = "returned" =>
          /\ sv_ret = attempts[Len(attempts)]
          /\ sv_ret \in avail

C1_Witness ==
    /\ sv_pc = "returned"
    /\ "gurobi" \notin avail
    /\ "mosek" \in avail
    /\ sv_ret = "cplex"
    /\ attempts = <<"gurobi", "cplex">>

\* C2: when every candidate fails, the call ends with an error raised to the
\* caller whose message names all attempted candidates.
C2_AllFailRaisesNamingAll ==
    (sv_pc \in {"returned", "raised"} /\ avail = {}) =>
        /\ sv_pc = "raised"
        /\ Range(attempts) # {}
        /\ Range(attempts) \subseteq Range(sv_err.names)

\* C3: no exception of convert_excel_to_csv reaches the caller; a failing
\* call returns the empty value.
C3_NoExceptionPropagates ==
    /\ cv_pc # "raised"
    /\ cv_err = "none"
    /\ (cv_pc = "returned" /\ cv_failed) => cv_ret = "[]"

\* the set the schema determines: every list name, and list name-attribute
\* for every time-varying input attribute
SchemaDerivedSet ==
    UNION { {<<list_name(key)>>} \cup
            { <<list_name(key), "-", a.name>> :
                a \in { r \in component_attrs(key) :
                          r.status \in {"Input (required)", "Input (optional)"}
                          /\ r.varying } }
            : key \in ComponentKeys }

\* C4: the allow-list a call computes equals the schema-derived set, the
\* plain list name of every component included.
C4_AllowListIsSchemaDerived ==
    cv_pc # "idle" => components = SchemaDerivedSet

\* C5: after a successful call the CSV files of the directory whose base
\* name is in the allow-list are exactly the files of the allow-listed
\* sheets of the workbook just converted, and only files of allow-listed
\* sheets are ever written.
C5_NoStaleCsv ==
    /\ written \subseteq
          { csv_file_path(sheet) : sheet \in Range(workbook.sheet_names) \cap components }
    /\ (cv_pc = "returned" /\ cv_ret = "csv_folder_path") =>
          { f \in dir : endswith_csv(f) /\ BaseName(f) \in components }
             = { csv_file_path(sheet) :
                   sheet \in Range(workbook.sheet_names) \cap components }

C5_Witness ==
    /\ cv_pc = "returned"
    /\ cv_ret = "csv_folder_path"
    /\ calls = 2
    /\ written # {}
    /\ \E f \in dir0 \ dir : endswith_csv(f) /\ BaseName(f) \in components

\* C6: a file the directory held when the call began is deleted only if it
\* is a CSV whose base name is in the allow-list, and no other such file is
\* overwritten.
C6_OnlyAllowListedCsvTouched ==
    \A f \in dir0 :
        (f \in removed \/ f \in written) =>
            endswith_csv(f) /\ BaseName(f) \in components

\* C7: the second-level handler in Plot mode with an empty series draws no
\* chart, reports "No data to plot" and leaves none in the result record; in
\* Plot mode with a non-empty series it draws a chart and stores the series;
\* in Table mode it displays and stores the series, empty or not.
C7_SecondLevelOutcome ==
    vw_last.handler = "second" =>
        LET series == time_data(vw_last.val, vw_last.variable) IN
        /\ (vw_last.mode = "Plot" /\ series.empty) =>
              vw_out = "No data to plot" /\ return_file = NoData
        /\ (vw_last.mode = "Plot" /\ ~series.empty) =>
              vw_out = "chart" /\ return_file = series
        /\ vw_last.mode = "Table" =>
              vw_out = "table" /\ return_file = series

C7_Witness ==
    /\ vw_last.handler = "second"
    /\ vw_last.mode = "Plot"
    /\ <<vw_last.val, vw_last.variable>> \in seriesEmpty
    /\ vw_out = "No data to plot"

\* C8: the workbook is closed, and the call returns, only when every
\* submitted conversion task has completed or raised.
C8_ClosedAfterAllTasks ==
    (xls = "closed" \/ cv_pc = "returned") =>
        \A k \in 1..Len(task) : Finished(k)

C8_Witness ==
    /\ cv_pc = "returned"
    /\ xls = "closed"
    /\ pendingAtRaise
    /\ \E k \in 1..Len(task) : task[k] = "done"

\* C9 as stated: within one invocation the first-level confirmation runs
\* at most once, and nothing is on the display after a render.
C9_FirstLevelOnlyOnce ==
    /\ vw_confirms <= 1
    /\ vw_rendered => (~vw_first /\ vw_panels = {})

\* C9 as amended: once a handler has rendered, the display holds no widget
\* and no handler runs again until pypsa_viewer is invoked again.
C9_NothingAfterRender ==
    /\ [](vw_rendered => (~vw_first /\ vw_panels = {}))
    /\ [][(vw_rendered /\ vw_inv' = vw_inv) => UNCHANGED viewVars]_vars

C9_Witness ==
    /\ vw_rendered
    /\ vw_confirms >= 2
    /\ vw_last.handler = "second"
    /\ ~vw_first

\* C10: a handler whose attribute list or dataset is empty finishes without
\* raising.
C10_EmptySelectionNeverRaises ==
    (/\ vw_last.handler = "first"
     /\ \/ (vw_last.type_var = "varying"
            /\ varying_attributes(vw_last.val, vw_last.io_data) = {})
        \/ (vw_last.type_var = "static"
            /\ valid_attributes(vw_last.val, vw_last.io_data) = {}))
        => vw_err = "none"
====
